---- MODULE Spec2Model ----
(***************************************************************************)
(* ReportScreen of WatchTower-Citizen-Mobile: the form state of the        *)
(* report screen, the image capture flows and the submission workflow      *)
(* (handleSubmit) with its three awaited external calls.                   *)
(*                                                                         *)
(* React state lives in the variables selectedDisaster, description,       *)
(* images, location and loading.  The handlers of the screen are closures  *)
(* of the last committed render: `rendered` is the state that render saw.  *)
(* A state update made inside a discrete user event (press, text change)   *)
(* is committed before the next event is dispatched; an update made by the *)
(* continuation of an awaited promise is committed by a later Render step. *)
(***************************************************************************)
EXTENDS Integers, Sequences, FiniteSets, Bags, TLC

(* ------------------------------ bounds -------------------------------- *)
MaxImages == 1
MaxWorkflows == 2
MaxFlows == 1
MaxAttached == 3
MaxImageFlows == 2

(* --------------------------- input domains ---------------------------- *)
\* values of the Picker.Item elements
PickerValues == {"", "Typhoon", "Fire", "Flood", "Others"}

\* the picker values the user chooses among while images are being attached
PickedValues == {"", "Flood"}

\* texts the user can type into the description input
Descriptions == {"", "Trees down"}

\* values of route.params.location delivered by the Map screen
RouteLocations == {"Manila"}

\* image references returned by the picker: a string is the sequence of its
\* pieces, the separators "/" and "." being pieces of their own
Uris == { <<"file:", "/", "cam", "/", "a", ".", "jpg">>,
          <<"b", ".", "x", ".", "png">> }

\* the image reference the picker returns while the text fields are edited too
ShotUris == { <<"file:", "/", "cam", "/", "a", ".", "jpg">> }

\* what AsyncStorage holds under 'loggedInUser': null or a string
Null == [null |-> TRUE]
StoredItems == { Null,
                 [text |-> "{bad"],
                 [text |-> "null"],
                 [text |-> "{}"],
                 [text |-> "{\"username\":\"\"}"],
                 [text |-> "{\"username\":\"jdoe\"}"],
                 [text |-> "{\"username\":\"asmith\"}"] }

Jane42 == [username |-> "jdoe", _id |-> "42", firstName |-> "Jane", lastName |-> "Doe"]
Jane43 == [username |-> "jdoe", _id |-> "43", firstName |-> "Janet", lastName |-> "Dow"]
Smith7 == [username |-> "asmith", _id |-> "7", lastName |-> "Smith"]
Anon9 == [username |-> "asmith", _id |-> "9", firstName |-> "Al"]

\* decoded bodies of GET /api/auth/citizens that are arrays
CitizenLists == { <<>>,
                  <<Smith7>>,
                  <<Jane42>>,
                  <<Smith7, Jane42, Jane43>>,
                  <<Jane43, Anon9, Jane42>> }

(* ------------------------------ helpers ------------------------------- *)
\* the placeholder left out
OrNoDefault(a, b) == a

\* the placeholder used whatever the value
OrAlways(a, b) == b

\* JS a || b on strings
Or(a, b) == IF a # "" THEN a ELSE b

EmptyObject == << >>

\* JSON.parse on the stored texts
JSONparse(text) ==
  CASE text = "{}" -> [ok |-> TRUE, isNull |-> FALSE, value |-> EmptyObject]
    [] text = "null" -> [ok |-> TRUE, isNull |-> TRUE, value |-> EmptyObject]
    [] text = "{\"username\":\"\"}" -> [ok |-> TRUE, isNull |-> FALSE, value |-> [username |-> ""]]
    [] text = "{\"username\":\"jdoe\"}" -> [ok |-> TRUE, isNull |-> FALSE, value |-> [username |-> "jdoe"]]
    [] text = "{\"username\":\"asmith\"}" -> [ok |-> TRUE, isNull |-> FALSE, value |-> [username |-> "asmith"]]
    [] OTHER -> [ok |-> FALSE, isNull |-> FALSE, value |-> EmptyObject]

\* String.prototype.split on a one-piece separator
RECURSIVE split(_, _)
split(s, sep) ==
  IF \A k \in 1..Len(s) : s[k] # sep
  THEN <<s>>
  ELSE LET k == CHOOSE k \in 1..Len(s) : s[k] = sep /\ \A j \in 1..(k-1) : s[j] # sep
       IN  <<SubSeq(s, 1, k-1)>> \o split(SubSeq(s, k+1, Len(s)), sep)

\* Array.prototype.pop: the last element
pop(a) == a[Len(a)]

\* falls back to the first entry when nothing matches
findIndexOrFirst(citizens, username) ==
  IF \E k \in 1..Len(citizens) : citizens[k].username = username
  THEN CHOOSE k \in 1..Len(citizens) :
         /\ citizens[k].username = username
         /\ \A j \in 1..(k-1) : citizens[j].username # username
  ELSE IF citizens # <<>> THEN 1 ELSE 0

\* takes the last matching entry
findLastIndex(citizens, username) ==
  IF \E k \in 1..Len(citizens) : citizens[k].username = username
  THEN CHOOSE k \in 1..Len(citizens) :
         /\ citizens[k].username = username
         /\ \A j \in (k+1)..Len(citizens) : citizens[j].username # username
  ELSE 0

\* Array.prototype.find with the username predicate: 0 when nothing matches
findIndex(citizens, username) ==
  IF \E k \in 1..Len(citizens) : citizens[k].username = username
  THEN CHOOSE k \in 1..Len(citizens) :
         /\ citizens[k].username = username
         /\ \A j \in 1..(k-1) : citizens[j].username # username
  ELSE 0

\* destructuring with defaults
firstNameOf(citizen) == IF "firstName" \in DOMAIN citizen THEN citizen.firstName ELSE "Unknown"
lastNameOf(citizen) == IF "lastName" \in DOMAIN citizen THEN citizen.lastName ELSE "User"

reportDetails(citizen, c) ==
  [ reporterId |-> citizen._id,
    reportedBy |-> firstNameOf(citizen) \o " " \o lastNameOf(citizen),
    location |-> Or(c.location, "No location provided"),
    disasterCategory |-> Or(c.selectedDisaster, "Unspecified"),
    disasterInfo |-> Or(c.description, "No description provided"),
    disasterStatus |-> "unverified",
    priority |-> "no priority",
    rescuerId |-> "no rescuer yet",
    rescuedBy |-> "no rescuer yet" ]

\* Object.keys(reportDetails), in insertion order
ReportKeys == << "reporterId", "reportedBy", "location", "disasterCategory",
                 "disasterInfo", "disasterStatus", "priority", "rescuerId", "rescuedBy" >>

filePart(imageUri) ==
  LET filename == pop(split(imageUri, "/"))
      type == <<"image", "/">> \o pop(split(filename, "."))
  IN  [name |-> "disasterImages", file |-> [uri |-> imageUri, name |-> filename, type |-> type]]

\* the file parts appended from the last image to the first
formDataReversed(report, imgs) ==
  [k \in 1..Len(ReportKeys) |-> [name |-> ReportKeys[k], text |-> report[ReportKeys[k]]]]
    \o [k \in 1..Len(imgs) |-> filePart(imgs[Len(imgs) + 1 - k])]

formData(report, imgs) ==
  [k \in 1..Len(ReportKeys) |-> [name |-> ReportKeys[k], text |-> report[ReportKeys[k]]]]
    \o [k \in 1..Len(imgs) |-> filePart(imgs[k])]

\* filters by the value found at index instead of by position
filterOutValue(prevImages, index) ==
  IF index + 1 \in 1..Len(prevImages)
  THEN SelectSeq(prevImages, LAMBDA u : u # prevImages[index + 1])
  ELSE prevImages

\* prevImages.filter((_, i) => i !== index), index counted from 0
RECURSIVE filterOut(_, _)
filterOut(prevImages, index) ==
  IF prevImages = <<>> THEN <<>>
  ELSE IF index = 0 THEN Tail(prevImages)
  ELSE <<Head(prevImages)>> \o filterOut(Tail(prevImages), index - 1)

(* ------------------------------ dialogs ------------------------------- *)
AlertNoUser == [title |-> "Error", message |-> "No logged-in user found!"]
AlertNoCitizen == [title |-> "Error", message |-> "Citizen data not found!"]
AlertGeneric == [title |-> "Error", message |-> "An error occurred while submitting the report."]
AlertSuccess == [title |-> "Success", message |-> "Report submitted successfully!"]
AlertCameraPermission ==
  [title |-> "Permission Required", message |-> "Permission to access the camera is required!"]
AlertLibraryPermission ==
  [title |-> "Permission Required", message |-> "Permission to access the media library is required!"]

(* ------------------------------- state -------------------------------- *)
VARIABLES
  selectedDisaster,  \* useState('')
  description,       \* useState('')
  images,            \* useState([])
  location,          \* useState('')
  loading,           \* useState(false)
  rendered,          \* the state the last committed render closed over
  wf,                \* the invocations of handleSubmit
  flows,             \* the bag of the invocations of openCamera / pickImage that
                     \* are awaiting a promise or whose alert is on the screen
  chosen             \* the images the pickers returned, in the order of their return,
                     \* less the ones whose close icon was pressed, since the last
                     \* successful submission

form == <<selectedDisaster, description, images, location>>
vars == <<selectedDisaster, description, images, location, loading, rendered, wf, flows, chosen>>

Workflows == 1..MaxWorkflows

InFlightPcs == {"awaitStorage", "awaitFetch", "awaitJson", "awaitPost"}

NoClosure == [selectedDisaster |-> "", description |-> "", images |-> <<>>, location |-> ""]

\* an invocation that has not started
IdleWf ==
  [ pc |-> "idle",          \* position in handleSubmit
    closure |-> NoClosure,  \* the form values the invocation closed over
    userRead |-> FALSE,     \* the stored user was read and parsed
    username |-> "",        \* const { username } = user
    getOk |-> TRUE,         \* response.ok of the citizens response being decoded
    bodies |-> <<>>,        \* the citizens lists decoded by this invocation
    posted |-> <<>>,        \* the POST requests of this invocation in flight
    postStatus |-> "",      \* result.ok of the POST response: "ok" or "notOk"
    reads |-> 0,            \* AsyncStorage.getItem calls
    gets |-> 0,             \* GET /api/auth/citizens requests issued
    posts |-> 0,            \* POST /api/reports requests issued
    alerts |-> <<>>,        \* Alert.alert calls
    logs |-> 0,             \* console.error calls
    goBacks |-> 0,          \* navigation.goBack calls
    error |-> "",           \* the error the catch block received
    ignored |-> FALSE,      \* a press arrived while this invocation was in flight
    stale |-> FALSE ]       \* the form differed from the closure at the end

\* an invocation of openCamera / pickImage that has just been called
StartedFlow(kind) ==
  [ pc |-> "awaitPermission",  \* position in openCamera / pickImage
    kind |-> kind,             \* "camera" or "gallery"
    alerts |-> <<>> ]          \* Alert.alert calls

View ==
  [ selectedDisaster |-> selectedDisaster, description |-> description,
    images |-> images, location |-> location, loading |-> loading ]

Init ==
  /\ selectedDisaster = ""
  /\ description = ""
  /\ images = <<>>
  /\ location = ""
  /\ loading = FALSE
  /\ rendered = View
  /\ wf = [i \in Workflows |-> IdleWf]
  /\ flows = EmptyBag
  /\ chosen = <<>>

InFlight(i) == wf[i].pc \in InFlightPcs

ClosureOf(r) ==
  [ selectedDisaster |-> r.selectedDisaster, description |-> r.description,
    images |-> r.images, location |-> r.location ]

CurrentForm ==
  [ selectedDisaster |-> selectedDisaster, description |-> description,
    images |-> images, location |-> location ]

(* ------------------- the re-render after an async update --------------- *)
Render ==
  /\ rendered # View
  /\ rendered' = View
  /\ UNCHANGED <<selectedDisaster, description, images, location, loading, wf, flows, chosen>>

(* ----------------------------- user edits ----------------------------- *)
\* Picker onValueChange
onValueChange(itemValue) ==
  /\ selectedDisaster' = itemValue
  /\ UNCHANGED <<description, images, location, loading, wf, flows, chosen>>
  /\ rendered' = View'

\* TextInput onChangeText
onChangeText ==
  \E text \in Descriptions :
    /\ description' = text
    /\ UNCHANGED <<selectedDisaster, images, location, loading, wf, flows, chosen>>
    /\ rendered' = View'

\* useEffect on route.params?.location
routeLocationEffect ==
  \E l \in RouteLocations :
    /\ location' = l
    /\ UNCHANGED <<selectedDisaster, description, images, loading, wf, flows, chosen>>
    /\ rendered' = View'

\* the element at position index, counted from 0, taken out of a list
removeAt(list, index) ==
  IF index + 1 \in 1..Len(list)
  THEN SubSeq(list, 1, index) \o SubSeq(list, index + 2, Len(list))
  ELSE list

\* deleteImage(index)
deleteImageAt(index) ==
  /\ images' = filterOut(images, index)
  /\ chosen' = removeAt(chosen, index)
  /\ UNCHANGED <<selectedDisaster, description, location, loading, wf, flows>>
  /\ rendered' = View'

\* the close icon of the image shown at position index of the rendered list
deleteImage ==
  \E index \in 0..(Len(rendered.images) - 1) : deleteImageAt(index)

(* --------------------------- image capture ---------------------------- *)
\* openCamera / pickImage up to the permission request, fewer than max
\* invocations being open
startImageFlow(kind, max) ==
  /\ BagCardinality(flows) < max
  /\ flows' = flows (+) SetToBag({StartedFlow(kind)})
  /\ UNCHANGED <<selectedDisaster, description, images, location, loading, wf, rendered, chosen>>

openCamera == startImageFlow("camera", MaxFlows)

pickImage == startImageFlow("gallery", MaxFlows)

permissionAlert(kind) ==
  IF kind = "camera" THEN AlertCameraPermission ELSE AlertLibraryPermission

\* the return after the alert left out
afterPermissionNoReturn(flow, granted) ==
  IF granted
  THEN SetToBag({[flow EXCEPT !.pc = "awaitPicker"]})
  ELSE SetToBag({[flow EXCEPT !.pc = "alert", !.alerts = Append(@, permissionAlert(flow.kind))],
                 [flow EXCEPT !.pc = "awaitPicker"]})

\* if (!permissionResult.granted) { Alert.alert(...); return; } launch...Async(...)
afterPermission(flow, granted) ==
  IF granted
  THEN SetToBag({[flow EXCEPT !.pc = "awaitPicker"]})
  ELSE SetToBag({[flow EXCEPT !.pc = "alert", !.alerts = Append(@, permissionAlert(flow.kind))]})

\* the permission request resolves
permissionResolves ==
  \E flow \in BagToSet(flows), granted \in BOOLEAN :
    /\ flow.pc = "awaitPermission"
    /\ flows' = (flows (-) SetToBag({flow})) (+) afterPermission(flow, granted)
    /\ UNCHANGED <<selectedDisaster, description, images, location, loading, wf, rendered, chosen>>

\* the user closes the permission alert
dismissAlert ==
  \E flow \in BagToSet(flows) :
    /\ flow.pc = "alert"
    /\ flows' = flows (-) SetToBag({flow})
    /\ UNCHANGED <<selectedDisaster, description, images, location, loading, wf, rendered, chosen>>

\* the update computed from the list the handler's render saw
appendImageStale(prevImages, uri) == rendered.images \o <<uri>>

\* setImages((prevImages) => [...prevImages, result.assets[0].uri])
appendImage(prevImages, uri) == prevImages \o <<uri>>

\* launchCameraAsync / launchImageLibraryAsync resolves, the list holding
\* fewer than max images
pickerSettles(uri, max) ==
  \E flow \in BagToSet(flows), canceled \in BOOLEAN :
    /\ flow.pc = "awaitPicker"
    /\ canceled \/ Len(images) < max
    /\ images' = IF canceled THEN images ELSE appendImage(images, uri)
    /\ chosen' = IF canceled THEN chosen ELSE chosen \o <<uri>>
    /\ flows' = flows (-) SetToBag({flow})
    /\ UNCHANGED <<selectedDisaster, description, location, loading, wf, rendered>>

pickerResolves(uri) == pickerSettles(uri, MaxImages)

(* ---------------------------- handleSubmit ---------------------------- *)
\* the guard left out
SubmitBlockedNever(l) == FALSE

\* if (loading) return
SubmitBlocked(l) == l

\* the username test left out
FalsyNever(s) == FALSE

\* !username
Falsy(s) == s = ""

\* the status test left out
FailedNever(ok) == FALSE

\* !result.ok
Failed(ok) == ~ok

\* setLoading(false) placed after the try statement instead of in finally
finallyLoadingSkippedOnReturn(exit) == exit = "return"

\* setLoading(false) of the finally block: the value of loading after the
\* try statement is left by "return", by "catch" or by running to its end
finallyLoading(exit) == FALSE

\* setImages([]) left out
clearTextFields(prev) ==
  [selectedDisaster |-> "", description |-> "", images |-> prev.images, location |-> ""]

\* setSelectedDisaster(''); setDescription(''); setImages([]); setLocation('')
clearAllFields(prev) ==
  [selectedDisaster |-> "", description |-> "", images |-> <<>>, location |-> ""]

\* the invocation is over: its closure, its response and its requests are gone
Over(w) ==
  [w EXCEPT !.pc = "done", !.closure = NoClosure, !.posted = <<>>, !.ignored = FALSE,
            !.getOk = TRUE,
            !.stale = (w.closure # CurrentForm)]

\* the catch block without console.error
CaughtSilently(w, error) ==
  [Over(w) EXCEPT !.error = error, !.alerts = Append(@, AlertGeneric)]

\* the catch block
Caught(w, error) ==
  [Over(w) EXCEPT !.error = error, !.logs = @ + 1, !.alerts = Append(@, AlertGeneric)]

\* Alert.alert(...) followed by return inside try
Returned(w, alert) ==
  [Over(w) EXCEPT !.alerts = Append(@, alert)]

\* the submit button is pressed
handleSubmit ==
  IF SubmitBlocked(rendered.loading)
  THEN /\ wf' = [i \in Workflows |-> IF InFlight(i) THEN [wf[i] EXCEPT !.ignored = TRUE] ELSE wf[i]]
       /\ UNCHANGED <<selectedDisaster, description, images, location, loading, rendered, flows, chosen>>
  ELSE /\ \E i \in Workflows : ~InFlight(i)
       /\ LET i == CHOOSE i \in Workflows : ~InFlight(i) /\ \A j \in 1..(i-1) : InFlight(j)
          IN  wf' = [wf EXCEPT ![i] = [IdleWf EXCEPT !.pc = "awaitStorage",
                                                    !.closure = ClosureOf(rendered),
                                                    !.reads = 1]]
       /\ loading' = TRUE
       /\ UNCHANGED <<selectedDisaster, description, images, location, flows, chosen>>
       /\ rendered' = View'

\* await AsyncStorage.getItem('loggedInUser') settles
storageResolves ==
  \E i \in Workflows, rejects \in BOOLEAN :
  \E loggedInUser \in (IF rejects THEN {Null} ELSE StoredItems) :
    /\ wf[i].pc = "awaitStorage"
    /\ LET parsed == IF loggedInUser = Null
                     THEN [ok |-> TRUE, isNull |-> FALSE, value |-> EmptyObject]
                     ELSE JSONparse(loggedInUser.text)
           user == parsed.value
           username == IF "username" \in DOMAIN user THEN user.username ELSE ""
       IN  IF rejects
           THEN /\ wf' = [wf EXCEPT ![i] = Caught(wf[i], "rejected")]
                /\ loading' = finallyLoading("catch")
           ELSE IF ~parsed.ok
           THEN /\ wf' = [wf EXCEPT ![i] = Caught(wf[i], "SyntaxError")]
                /\ loading' = finallyLoading("catch")
           ELSE IF parsed.isNull
           THEN /\ wf' = [wf EXCEPT ![i] = Caught(wf[i], "TypeError")]
                /\ loading' = finallyLoading("catch")
           ELSE IF Falsy(username)
           THEN /\ wf' = [wf EXCEPT ![i] = Returned([wf[i] EXCEPT !.userRead = TRUE], AlertNoUser)]
                /\ loading' = finallyLoading("return")
           ELSE /\ wf' = [wf EXCEPT ![i].pc = "awaitFetch", ![i].userRead = TRUE,
                                    ![i].username = username, ![i].gets = @ + 1]
                /\ UNCHANGED loading
    /\ UNCHANGED <<selectedDisaster, description, images, location, rendered, flows, chosen>>

\* await fetch(`${SERVER_URL}/api/auth/citizens`) settles
fetchResolves ==
  \E i \in Workflows, rejects \in BOOLEAN :
  \E ok \in (IF rejects THEN {TRUE} ELSE BOOLEAN) :
    /\ wf[i].pc = "awaitFetch"
    /\ IF rejects
       THEN /\ wf' = [wf EXCEPT ![i] = Caught(wf[i], "rejected")]
            /\ loading' = finallyLoading("catch")
       ELSE /\ wf' = [wf EXCEPT ![i].pc = "awaitJson", ![i].getOk = ok]
            /\ UNCHANGED loading
    /\ UNCHANGED <<selectedDisaster, description, images, location, rendered, flows, chosen>>

\* await response.json() settles
jsonResolves ==
  \E i \in Workflows, rejects \in BOOLEAN :
  \E isArray \in (IF rejects THEN {TRUE} ELSE BOOLEAN) :
  \E body \in (IF rejects \/ ~isArray THEN {<<>>} ELSE CitizenLists) :
    /\ wf[i].pc = "awaitJson"
    /\ IF rejects
       THEN /\ wf' = [wf EXCEPT ![i] = Caught(wf[i], "rejected")]
            /\ loading' = finallyLoading("catch")
       ELSE IF ~isArray
       THEN /\ wf' = [wf EXCEPT ![i] = Caught(wf[i], "TypeError")]
            /\ loading' = finallyLoading("catch")
       ELSE LET k == findIndex(body, wf[i].username)
                w == [wf[i] EXCEPT !.bodies = Append(@, body), !.getOk = TRUE]
            IN  IF k = 0
                THEN /\ wf' = [wf EXCEPT ![i] = Returned(w, AlertNoCitizen)]
                     /\ loading' = finallyLoading("return")
                ELSE LET report == reportDetails(body[k], w.closure)
                         request == [url |-> "/api/reports", report |-> report,
                                     body |-> formData(report, w.closure.images)]
                     IN  /\ wf' = [wf EXCEPT ![i] = [w EXCEPT !.pc = "awaitPost",
                                                             !.posted = Append(@, request),
                                                             !.posts = @ + 1]]
                         /\ UNCHANGED loading
    /\ UNCHANGED <<selectedDisaster, description, images, location, rendered, flows, chosen>>

\* await fetch(`${SERVER_URL}/api/reports`, ...) settles
postResolves ==
  \E i \in Workflows, rejects \in BOOLEAN :
  \E ok \in (IF rejects THEN {TRUE} ELSE BOOLEAN) :
    /\ wf[i].pc = "awaitPost"
    /\ IF rejects
       THEN /\ wf' = [wf EXCEPT ![i] = Caught(wf[i], "rejected")]
            /\ UNCHANGED <<selectedDisaster, description, images, location, chosen>>
            /\ loading' = finallyLoading("catch")
       ELSE LET w == [wf[i] EXCEPT !.postStatus = IF ok THEN "ok" ELSE "notOk"]
            IN  IF Failed(ok)
                THEN /\ wf' = [wf EXCEPT ![i] = Caught(w, "Failed to submit the report")]
                     /\ UNCHANGED <<selectedDisaster, description, images, location, chosen>>
                     /\ loading' = finallyLoading("catch")
                ELSE LET cleared == clearAllFields(CurrentForm)
                     IN  /\ wf' = [wf EXCEPT ![i] =
                                     [Returned(w, AlertSuccess) EXCEPT !.goBacks = @ + 1]]
                         /\ selectedDisaster' = cleared.selectedDisaster
                         /\ description' = cleared.description
                         /\ images' = cleared.images
                         /\ location' = cleared.location
                         /\ chosen' = <<>>
                         /\ loading' = finallyLoading("end")
    /\ UNCHANGED <<rendered, flows>>

(* --------------------------- specification ---------------------------- *)
Next ==
  \/ Render
  \/ \E itemValue \in PickedValues : onValueChange(itemValue)
  \/ onChangeText
  \/ routeLocationEffect
  \/ deleteImage
  \/ openCamera
  \/ pickImage
  \/ permissionResolves
  \/ dismissAlert
  \/ \E uri \in ShotUris : pickerResolves(uri)
  \/ handleSubmit
  \/ storageResolves
  \/ fetchResolves
  \/ jsonResolves
  \/ postResolves

Spec == Init /\ [][Next]_vars

\* the form without attachments, every picker value available
NextForm ==
  \/ Render
  \/ \E itemValue \in PickerValues : onValueChange(itemValue)
  \/ onChangeText
  \/ routeLocationEffect
  \/ handleSubmit
  \/ storageResolves
  \/ fetchResolves
  \/ jsonResolves
  \/ postResolves

FormSpec == Init /\ [][NextForm]_vars

\* every awaited external call eventually returns or throws
Fairness ==
  /\ WF_vars(storageResolves)
  /\ WF_vars(fetchResolves)
  /\ WF_vars(jsonResolves)
  /\ WF_vars(postResolves)

FairSpec == Init /\ [][NextForm]_vars /\ Fairness

\* the attachment list alone, several capture flows open together
NextImages ==
  \/ Render
  \/ deleteImage
  \/ \E kind \in {"camera", "gallery"} : startImageFlow(kind, MaxImageFlows)
  \/ permissionResolves
  \/ dismissAlert
  \/ \E uri \in Uris : pickerSettles(uri, MaxAttached)

ImageSpec == Init /\ [][NextImages]_vars

\* the lists of at most n image references
RECURSIVE ListsUpTo(_)
ListsUpTo(n) ==
  IF n = 0 THEN {<<>>}
  ELSE LET shorter == ListsUpTo(n - 1)
       IN  shorter \cup {Append(l, uri) : l \in shorter, uri \in Uris}

\* the screen after some images have been attached
InitAttached ==
  /\ selectedDisaster = ""
  /\ description = ""
  /\ images \in ListsUpTo(MaxAttached)
  /\ location = ""
  /\ loading = FALSE
  /\ rendered = View
  /\ wf = [i \in Workflows |-> IdleWf]
  /\ flows = EmptyBag
  /\ chosen = images

\* submissions of a form that has attachments, which the user may delete
NextAttached ==
  \/ Render
  \/ \E itemValue \in PickedValues : onValueChange(itemValue)
  \/ deleteImage
  \/ handleSubmit
  \/ storageResolves
  \/ fetchResolves
  \/ jsonResolves
  \/ postResolves

AttachedSpec == InitAttached /\ [][NextAttached]_vars

(* ------------------------ the submission's inputs ---------------------- *)
\* the stored user was read but carries no username
MissingLocalUser(w) == w.userRead /\ w.username = ""

\* a citizens list was decoded and no entry of it has the stored username
NoEntryMatches(w) ==
  /\ w.bodies # <<>>
  /\ \A k \in 1..Len(w.bodies[1]) : w.bodies[1][k].username # w.username

\* an awaited storage or network call rejected
TransportFailure(w) == w.error = "rejected"

\* the POST response was not ok
NonOkResponse(w) == w.postStatus = "notOk"

(* ------------------------------- claims -------------------------------- *)
\* C1: a press of the submit button while a submission is in flight is a
\* no-op: it issues no request and changes no state, so at most one
\* submission is in flight at any time and a submission issues at most one
\* GET and one POST.
C1_SubmitGuard ==
  /\ [](/\ Cardinality({i \in Workflows : InFlight(i)}) <= 1
        /\ \A i \in Workflows :
             /\ wf[i].gets <= 1
             /\ wf[i].posts <= 1
             /\ Len(wf[i].posted) <= 1
             /\ InFlight(i) => loading /\ rendered.loading)
  /\ [][(\E i \in Workflows : InFlight(i) /\ ~wf[i].ignored /\ wf'[i].ignored)
          => /\ UNCHANGED <<selectedDisaster, description, images, location,
                            loading, rendered, flows, chosen>>
             /\ \A j \in Workflows :
                  /\ wf'[j].pc = wf[j].pc
                  /\ wf'[j].reads = wf[j].reads
                  /\ wf'[j].gets = wf[j].gets
                  /\ wf'[j].posts = wf[j].posts
                  /\ wf'[j].posted = wf[j].posted]_vars

C1_PressIgnoredDuringPost ==
  \E i \in Workflows :
    wf[i].pc = "awaitPost" /\ wf[i].ignored /\ wf[i].posts = 1 /\ wf[i].gets = 1

\* C2: every submission that set loading to true sets it back to false,
\* whichever way it ends, provided the awaited calls settle; no submission
\* ends with loading still true.
C2_LoadingReleased ==
  /\ loading ~> ~loading
  /\ [][\A i \in Workflows : (InFlight(i) /\ wf'[i].pc = "done") => ~loading']_vars
  /\ []((\A i \in Workflows : ~InFlight(i)) => ~loading)

C2_ReturnedWithLoadingCleared ==
  \E i \in Workflows :
    wf[i].pc = "done" /\ MissingLocalUser(wf[i]) /\ wf[i].reads = 1 /\ ~loading

\* C3: when the decoded citizens list has no entry with the stored username,
\* the submission shows an error dialog, issues no POST and leaves the four
\* form fields unchanged.
C3_NoMatchNoPost ==
  /\ [](\A i \in Workflows : NoEntryMatches(wf[i]) =>
          /\ wf[i].pc = "done"
          /\ wf[i].alerts = <<AlertNoCitizen>>
          /\ wf[i].posts = 0
          /\ wf[i].posted = <<>>)
  /\ [][\A i \in Workflows :
          (wf[i].pc = "awaitJson" /\ NoEntryMatches(wf'[i]))
            => UNCHANGED <<selectedDisaster, description, images, location>>]_vars

C3_NoMatchSeen ==
  \E i \in Workflows :
    /\ wf[i].username = "jdoe"
    /\ wf[i].bodies = << <<Smith7>> >>
    /\ wf[i].alerts = <<AlertNoCitizen>>
    /\ wf[i].posts = 0
    /\ description # ""
    /\ images # <<>>

\* C4: within a submission the storage read precedes the GET, which
\* precedes the POST; the GET is issued only for a non-empty stored username
\* and the POST only after a decoded list that contains a matching citizen.
C4_StepOrder ==
  \A i \in Workflows :
    /\ wf[i].posts <= wf[i].gets
    /\ wf[i].gets <= wf[i].reads
    /\ wf[i].pc = "awaitStorage" => wf[i].gets = 0 /\ wf[i].posts = 0
    /\ wf[i].pc \in {"awaitFetch", "awaitJson"} => wf[i].gets = 1 /\ wf[i].posts = 0
    /\ wf[i].gets > 0 => wf[i].userRead /\ wf[i].username # ""
    /\ MissingLocalUser(wf[i]) => wf[i].gets = 0 /\ wf[i].posts = 0
    /\ wf[i].bodies # <<>> => wf[i].gets = 1
    /\ wf[i].posts > 0 =>
         /\ wf[i].bodies # <<>>
         /\ \E k \in 1..Len(wf[i].bodies[1]) : wf[i].bodies[1][k].username = wf[i].username

C4_PostAfterGet ==
  \E i \in Workflows :
    wf[i].pc = "awaitPost" /\ wf[i].reads = 1 /\ wf[i].gets = 1 /\ wf[i].posts = 1

\* C5: when the POST response is ok the four form fields are empty after the
\* submission, also when the form was edited while it was in flight, the
\* confirmation is shown and navigation.goBack is called exactly once; when
\* the response is not ok none of this happens.
C5_SuccessReset ==
  /\ [][\A i \in Workflows : (wf[i].pc = "awaitPost" /\ wf'[i].pc = "done") =>
          IF wf'[i].postStatus = "ok"
          THEN /\ selectedDisaster' = ""
               /\ description' = ""
               /\ location' = ""
               /\ images' = <<>>
               /\ wf'[i].alerts = <<AlertSuccess>>
               /\ wf'[i].goBacks = 1
          ELSE /\ UNCHANGED <<selectedDisaster, description, images, location>>
               /\ wf'[i].goBacks = 0
               /\ \A a \in 1..Len(wf'[i].alerts) : wf'[i].alerts[a] # AlertSuccess]_vars
  /\ [](\A i \in Workflows :
          wf[i].goBacks = IF wf[i].pc = "done" /\ wf[i].postStatus = "ok" THEN 1 ELSE 0)

C5_ResetAfterEditInFlight ==
  \E i \in Workflows :
    /\ wf[i].pc = "done"
    /\ wf[i].postStatus = "ok"
    /\ wf[i].stale
    /\ wf[i].goBacks = 1
    /\ CurrentForm = NoClosure

\* C6: a submission that fails (no stored username, no matching citizen, a
\* rejected storage or network call, a non-ok POST response, any other thrown
\* error) leaves the four form fields as they were and does not call
\* navigation.goBack.
C6_FailureKeepsForm ==
  [][\A i \in Workflows :
       ( /\ InFlight(i)
         /\ wf'[i].pc = "done"
         /\ \/ MissingLocalUser(wf'[i])
            \/ NoEntryMatches(wf'[i])
            \/ TransportFailure(wf'[i])
            \/ NonOkResponse(wf'[i])
            \/ wf'[i].error # "" )
       => /\ UNCHANGED <<selectedDisaster, description, images, location>>
          /\ wf'[i].goBacks = 0]_vars

C6_NonOkWithFilledForm ==
  \E i \in Workflows :
    /\ wf[i].pc = "done"
    /\ NonOkResponse(wf[i])
    /\ wf[i].goBacks = 0
    /\ ~wf[i].stale
    /\ selectedDisaster # "" /\ description # "" /\ location # "" /\ images # <<>>

\* C7 as stated: each of the four failure kinds produces the one generic
\* error dialog and a diagnostic log entry.
C7_OneGenericDialog ==
  \A i \in Workflows :
    ( /\ wf[i].pc = "done"
      /\ \/ MissingLocalUser(wf[i])
         \/ NoEntryMatches(wf[i])
         \/ TransportFailure(wf[i])
         \/ NonOkResponse(wf[i]) )
    => wf[i].alerts = <<AlertGeneric>> /\ wf[i].logs = 1

\* C7 amended: each failure kind produces exactly one dialog titled "Error".
\* A rejected call and a non-ok POST response produce the generic message and
\* one log entry; a missing stored username and a missing citizen produce
\* their own messages and no log entry.
C7_DialogPerFailureKind ==
  \A i \in Workflows : wf[i].pc = "done" =>
    /\ (TransportFailure(wf[i]) \/ NonOkResponse(wf[i]))
         => wf[i].alerts = <<AlertGeneric>> /\ wf[i].logs = 1
    /\ MissingLocalUser(wf[i]) => wf[i].alerts = <<AlertNoUser>> /\ wf[i].logs = 0
    /\ NoEntryMatches(wf[i]) => wf[i].alerts = <<AlertNoCitizen>> /\ wf[i].logs = 0
    /\ ( \/ MissingLocalUser(wf[i])
         \/ NoEntryMatches(wf[i])
         \/ TransportFailure(wf[i])
         \/ NonOkResponse(wf[i]) )
         => Len(wf[i].alerts) = 1 /\ wf[i].alerts[1].title = "Error"

C7_NoUserDialogShown ==
  \E i \in Workflows :
    /\ wf[i].pc = "done"
    /\ MissingLocalUser(wf[i])
    /\ wf[i].alerts = <<AlertNoUser>>
    /\ wf[i].logs = 0

\* C8: every posted Report has non-empty location, disasterCategory and
\* disasterInfo: a non-empty form value is passed through unchanged, an empty
\* one is replaced by its placeholder.
C8_PlaceholdersTotal ==
  \A i \in Workflows : \A r \in 1..Len(wf[i].posted) :
    LET report == wf[i].posted[r].report
        c == wf[i].closure
    IN  /\ report.location # ""
        /\ report.disasterCategory # ""
        /\ report.disasterInfo # ""
        /\ report.location = IF c.location = "" THEN "No location provided" ELSE c.location
        /\ report.disasterCategory =
             IF c.selectedDisaster = "" THEN "Unspecified" ELSE c.selectedDisaster
        /\ report.disasterInfo =
             IF c.description = "" THEN "No description provided" ELSE c.description

C8_MixedFormPosted ==
  \E i \in Workflows :
    /\ wf[i].pc = "awaitPost"
    /\ Len(wf[i].posted) = 1
    /\ wf[i].closure.location = "Manila"
    /\ wf[i].closure.selectedDisaster = ""
    /\ wf[i].closure.description = ""
    /\ wf[i].posted[1].report.location = "Manila"
    /\ wf[i].posted[1].report.disasterInfo = "No description provided"

\* C9 as stated: the disasterCategory of every constructed Report is
\* Typhoon, Fire, Flood, Others or empty.
C9_CategoryEnumeratedOrEmpty ==
  \A i \in Workflows : \A r \in 1..Len(wf[i].posted) :
    wf[i].posted[r].report.disasterCategory \in {"Typhoon", "Fire", "Flood", "Others", ""}

\* C9 amended: the disasterCategory of every constructed Report is the picked
\* value Typhoon, Fire, Flood or Others, or "Unspecified" when nothing is
\* picked; it is never empty.
C9_CategoryEnumeratedOrUnspecified ==
  \A i \in Workflows : \A r \in 1..Len(wf[i].posted) :
    LET category == wf[i].posted[r].report.disasterCategory
        picked == wf[i].closure.selectedDisaster
    IN  /\ category \in {"Typhoon", "Fire", "Flood", "Others", "Unspecified"}
        /\ picked \in {"Typhoon", "Fire", "Flood", "Others"} => category = picked
        /\ picked = "" => category = "Unspecified"

C9_UnspecifiedPosted ==
  \E i \in Workflows :
    /\ wf[i].pc = "awaitPost"
    /\ wf[i].closure.selectedDisaster = ""
    /\ wf[i].posted[1].report.disasterCategory = "Unspecified"

\* C10: the posted Report is derived from the first entry of the decoded
\* list whose username is the stored one: reporterId is its _id, reportedBy
\* its firstName, a space and its lastName ('Unknown' and 'User' standing in
\* for a name the entry lacks); disasterStatus, priority, rescuerId and
\* rescuedBy are the fixed strings.  The jdoe scenario posts "Jane Doe" and
\* the two placeholders.
C10_ReportFromFirstMatch ==
  \A i \in Workflows : \A r \in 1..Len(wf[i].posted) :
    LET report == wf[i].posted[r].report
        c == wf[i].closure
        list == wf[i].bodies[1]
        first == CHOOSE k \in 1..Len(list) :
                   /\ list[k].username = wf[i].username
                   /\ \A j \in 1..(k-1) : list[j].username # wf[i].username
        entry == list[first]
    IN  /\ report.reporterId = entry._id
        /\ ("firstName" \in DOMAIN entry /\ "lastName" \in DOMAIN entry)
             => report.reportedBy = entry.firstName \o " " \o entry.lastName
        /\ "firstName" \notin DOMAIN entry
             => report.reportedBy = "Unknown" \o " " \o entry.lastName
        /\ "lastName" \notin DOMAIN entry
             => report.reportedBy = entry.firstName \o " " \o "User"
        /\ report.disasterStatus = "unverified"
        /\ report.priority = "no priority"
        /\ report.rescuerId = "no rescuer yet"
        /\ report.rescuedBy = "no rescuer yet"
        /\ ( /\ wf[i].username = "jdoe"
             /\ entry = Jane42
             /\ c.selectedDisaster = "Flood"
             /\ c.description = ""
             /\ c.location = ""
             /\ c.images = <<>> )
           => /\ report.reporterId = "42"
              /\ report.reportedBy = "Jane Doe"
              /\ report.disasterCategory = "Flood"
              /\ report.disasterInfo = "No description provided"
              /\ report.location = "No location provided"

C10_JdoeScenario ==
  \E i \in Workflows :
    /\ wf[i].pc = "awaitPost"
    /\ wf[i].username = "jdoe"
    /\ wf[i].bodies = << <<Smith7, Jane42, Jane43>> >>
    /\ wf[i].closure = [selectedDisaster |-> "Flood", description |-> "",
                        images |-> <<>>, location |-> ""]
    /\ wf[i].posted[1].report.reportedBy = "Jane Doe"

\* C11: for every attachment list and every index within it, deleteImage(index)
\* leaves the list without the element at that position: one element shorter,
\* the elements before the position unmoved, the elements after it moved up by
\* one, nothing else removed or reordered; of two attached images, deleting
\* index 0 leaves exactly the second
C11_DeleteRemovesPosition ==
  [][\A index \in 0..(MaxAttached - 1) :
       (deleteImageAt(index) /\ index < Len(images)) =>
         /\ Len(images') = Len(images) - 1
         /\ \A k \in 1..Len(images') :
              images'[k] = IF k <= index THEN images[k] ELSE images[k + 1]
         /\ (Len(images) = 2 /\ index = 0) => images' = <<images[2]>>]_vars

\* Submit was pressed with two different images attached, and since then the
\* first has been deleted: exactly the second remains
C11_FirstOfTwoDeleted ==
  \E i \in Workflows :
    /\ InFlight(i)
    /\ Len(wf[i].closure.images) = 2
    /\ wf[i].closure.images[1] # wf[i].closure.images[2]
    /\ images = <<wf[i].closure.images[2]>>

(* ---------------------- the capture flows' positions -------------------- *)
Kinds == {"camera", "gallery"}

\* the invocations of a kind awaiting the permission request
Waiting(kind) == CopiesIn(StartedFlow(kind), flows)

\* the invocations of a kind whose picker is open
Picking(kind) == CopiesIn([StartedFlow(kind) EXCEPT !.pc = "awaitPicker"], flows)

\* the invocations of a kind that ended with the permission message on screen
Alerting(kind) ==
  CopiesIn([pc |-> "alert", kind |-> kind,
            alerts |-> << [title |-> "Permission Required",
                           message |-> IF kind = "camera"
                                       THEN "Permission to access the camera is required!"
                                       ELSE "Permission to access the media library is required!"] >>],
           flows)

C13_PayloadParts ==
  \A i \in Workflows : \A r \in 1..Len(wf[i].posted) :
    LET body == wf[i].posted[r].body
        report == wf[i].posted[r].report
        attached == wf[i].closure.images
        texts == {k \in 1..Len(body) : "text" \in DOMAIN body[k]}
        files == {k \in 1..Len(body) : "file" \in DOMAIN body[k]}
    IN  /\ Cardinality(texts) = Cardinality(DOMAIN report)
        /\ \A field \in DOMAIN report :
             \E k \in texts : body[k] = [name |-> field, text |-> report[field]]
        /\ files = {Cardinality(texts) + k : k \in 1..Len(attached)}
        /\ \A k \in 1..Len(attached) :
             LET part == body[Cardinality(texts) + k]
                 uri == attached[k]
             IN  /\ part.name = "disasterImages"
                 /\ part.file.uri = uri
                 /\ \E j \in 0..Len(uri) :
                      /\ j = 0 \/ uri[j] = "/"
                      /\ \A m \in (j + 1)..Len(uri) : uri[m] # "/"
                      /\ part.file.name = SubSeq(uri, j + 1, Len(uri))
        /\ attached = <<>> => files = {}

\* a POST is in flight whose form had two different images attached
C13_TwoAttachmentsPosted ==
  \E i \in Workflows :
    /\ wf[i].pc = "awaitPost"
    /\ wf[i].closure.images = << <<"b", ".", "x", ".", "png">>,
                                 <<"file:", "/", "cam", "/", "a", ".", "jpg">> >>
    /\ Len(wf[i].posted[1].body) = 11
    /\ wf[i].posted[1].body[10].file.name = <<"b", ".", "x", ".", "png">>
    /\ wf[i].posted[1].body[11].file.name = <<"a", ".", "jpg">>

\* C14: a non-ok response is a failure for both backend calls: when the
\* GET of the citizens list answered with a non-ok status, the invocation,
\* whatever body it decodes, issues no POST and ends with an error dialog;
\* when the POST answered with a non-ok status the invocation ends with an
\* error dialog
C14_NonOkResponseFails ==
  [][\A i \in Workflows :
       /\ (wf[i].pc = "awaitJson" /\ ~wf[i].getOk /\ wf'[i].pc # "awaitJson") =>
            /\ wf'[i].posts = wf[i].posts
            /\ wf'[i].pc = "done"
            /\ Len(wf'[i].alerts) = Len(wf[i].alerts) + 1
            /\ wf'[i].alerts[Len(wf'[i].alerts)].title = "Error"
       /\ (wf[i].pc = "awaitPost" /\ wf'[i].postStatus = "notOk") =>
            /\ wf'[i].pc = "done"
            /\ Len(wf'[i].alerts) = Len(wf[i].alerts) + 1
            /\ wf'[i].alerts[Len(wf'[i].alerts)].title = "Error"]_vars

\* C15: no attachment is silently lost: a step that takes references out of
\* the attachment list is either a deleteImage of the user or the reset of a
\* successful submission, and the reset removes no more copies of a reference
\* than the POST of that submission carried as file parts
C15_ResetLosesNoAttachment ==
  [][(\E u \in Uris : Cardinality({k \in 1..Len(images') : images'[k] = u})
                         < Cardinality({k \in 1..Len(images) : images[k] = u}))
       => \/ \E index \in 0..(Len(images) - 1) : deleteImageAt(index)
          \/ \E i \in Workflows :
               /\ wf[i].pc = "awaitPost"
               /\ wf'[i].postStatus = "ok"
               /\ \A u \in Uris :
                    LET body == wf[i].posted[1].body
                    IN  Cardinality({k \in 1..Len(images) : images[k] = u})
                          - Cardinality({k \in 1..Len(images') : images'[k] = u})
                        <= Cardinality({k \in 1..Len(body) :
                                          /\ "file" \in DOMAIN body[k]
                                          /\ body[k].name = "disasterImages"
                                          /\ body[k].file.uri = u})]_vars

\* C16: with several capture flows and deleteImage calls interleaved and no
\* submission, no update of the attachment list is lost: at every moment, and
\* so after all flows have completed, the list holds exactly the images the
\* pickers returned, in the order the flows completed, less the ones deleted,
\* each once per return; and the image shown at a position is the image a
\* deleteImage of that position removes
C16_NoUpdateLost ==
  /\ images = chosen
  /\ Len(rendered.images) <= Len(images)
  /\ \A k \in 1..Len(rendered.images) : rendered.images[k] = images[k]

\* two flows returned different images after the last render, whose list was
\* empty, and no flow is open any more: both images are attached
C16_TwoCompletionsBetweenRenders ==
  /\ flows = EmptyBag
  /\ rendered.images = <<>>
  /\ Len(images) = 2
  /\ images[1] # images[2]

====
